---- MODULE Spec2Model ----
(***************************************************************************)
(* GeoLoc.js: a resolver that asks a list of position providers for the   *)
(* caller's position, one after the other (getPosition) or all at once    *)
(* (getPositionParallel), behind a one-record cache kept in localStorage  *)
(* under the key '_GeoLocData' as the string "<lat>,<lon>,<timestamp>".   *)
(*                                                                         *)
(* The file holds two editions of the library.  The first (lines 1-270)   *)
(* has getPosition(options, cb) and getPositionParallel(options, cb); the *)
(* second (lines 272-440) has getPosition(cb) and a static                *)
(* GeoLoc.getPosition(options, cb) that builds the resolver from options. *)
(*                                                                         *)
(* JavaScript is single-threaded: every action below is one run-to-       *)
(* completion step (one API call, one provider callback, one clock step). *)
(***************************************************************************)
EXTENDS Integers, Sequences, FiniteSets

\* ---------------------------------------------------------------- bounds
NumProviders == 2       \* providers are 1..NumProviders; the longest list has them all
MaxSmallTicks == 1      \* clock steps of one millisecond

\* ------------------------------------------------------ program constants
DefaultMaximumAge == 86400000       \* prototype.maximumAge: 1000 * 60 * 60 * 24

\* ------------------------------------------------------ JavaScript values
\* A value as the code sees it: typeof (type), and for a number whether it
\* is NaN and otherwise its integer value.
Num(n) == [type |-> "number", nan |-> FALSE, v |-> n]
NaN == [type |-> "number", nan |-> TRUE, v |-> 0]
Bad == [type |-> "string", nan |-> FALSE, v |-> 0]          \* the string "bad"
Undefined == [type |-> "undefined", nan |-> FALSE, v |-> 0]

Null == [null |-> TRUE]
Pos(lat, lon) == [latitude |-> lat, longitude |-> lon]

\* Strings are sequences of one-character strings.
Digits == <<"0", "1", "2", "3", "4", "5", "6", "7", "8", "9">>

IsDigit(ch) == \E d \in 1..10 : Digits[d] = ch

DigitVal(ch) == (CHOOSE d \in 1..10 : Digits[d] = ch) - 1

AllDigits(s) == \A i \in 1..Len(s) : IsDigit(s[i])

RECURSIVE NatToString(_)
NatToString(n) ==
    IF n < 10 THEN <<Digits[n + 1]>>
    ELSE NatToString(n \div 10) \o <<Digits[(n % 10) + 1]>>

RECURSIVE DigitsToNat(_)
DigitsToNat(s) ==
    IF s = <<>> THEN 0
    ELSE 10 * DigitsToNat(SubSeq(s, 1, Len(s) - 1)) + DigitVal(s[Len(s)])

\* The string of an array element, as Array.prototype.join applies it:
\* undefined gives "", NaN gives "NaN".
ElementToString(x) ==
    IF x.type = "undefined" THEN <<>>
    ELSE IF x.type = "string" THEN <<"b", "a", "d">>
    ELSE IF x.nan THEN <<"N", "a", "N">>
    ELSE IF x.v < 0 THEN <<"-">> \o NatToString(-x.v)
    ELSE NatToString(x.v)

\* [a, b, c].join(',')
RECURSIVE Join(_)
Join(xs) ==
    IF xs = <<>> THEN <<>>
    ELSE IF Len(xs) = 1 THEN ElementToString(xs[1])
    ELSE ElementToString(xs[1]) \o <<",">> \o Join(Tail(xs))

\* str.split(','): the fields between the commas (a non-empty string always
\* gives at least one field).
RECURSIVE Split(_)
Split(s) ==
    IF \A i \in 1..Len(s) : s[i] # "," THEN <<s>>
    ELSE LET k == CHOOSE i \in 1..Len(s) :
                      s[i] = "," /\ \A j \in 1..(i - 1) : s[j] # ","
         IN  <<SubSeq(s, 1, k - 1)>> \o Split(SubSeq(s, k + 1, Len(s)))

\* Number(str): "" is 0, a decimal integer is itself, anything else is NaN.
StringToNumber(s) ==
    IF s = <<>> THEN Num(0)
    ELSE IF AllDigits(s) THEN Num(DigitsToNat(s))
    ELSE IF Len(s) > 1 /\ Head(s) = "-" /\ AllDigits(Tail(s))
         THEN Num(-DigitsToNat(Tail(s)))
    ELSE NaN

\* Number(parts[i]) with parts[i] undefined past the end: Number(undefined)
\* is NaN.  i counts from 1 here, from 0 in the source.
NumberAt(parts, i) ==
    IF i <= Len(parts) THEN StringToNumber(parts[i]) ELSE NaN

\* a || b on numbers: 0 and undefined (both modelled as 0) are falsy.
OrElse(a, b) == IF a # 0 THEN a ELSE b

\* ------------------------------------------------------------- inputs
Providers == 1..NumProviders

\* <<1, ..., n>> and <<NumProviders, ..., NumProviders - n + 1>>
Up(n) == [i \in 1..n |-> i]
Down(n) == [i \in 1..n |-> NumProviders + 1 - i]

\* The provider lists a caller supplies: every prefix of the providers in
\* ascending order and in descending order, the empty list included.
ProviderLists == {Up(n) : n \in 0..NumProviders} \cup {Down(n) : n \in 0..NumProviders}

\* options.providers: given (any array, [] included, is truthy) or absent.
NoProviders == [given |-> FALSE, list |-> <<>>]
Given(l) == [given |-> TRUE, list |-> l]
ProviderOptions == {NoProviders} \cup {Given(l) : l \in ProviderLists}

\* options.maximumAge: 0 stands for absent.
MaximumAges == {0, 1}

Options == [providers : ProviderOptions, maximumAge : MaximumAges]

\* What a provider hands to its callback, (err, data): each provider has one
\* error of its own, one well-formed position of its own (the second one's
\* latitude is NaN, which typeof calls a number) and one malformed position.
Fail(e) == [err |-> e, data |-> Null]
Ok(p) == [err |-> "null", data |-> p]
ErrorOf(p) == IF p = 1 THEN "E1" ELSE IF p = 2 THEN "E2" ELSE "E3"
PositionOf(p) == IF p = 2 THEN Pos(NaN, Num(2)) ELSE Pos(Num(p - 4), Num(40 + p))
GarbageOf(p) == IF p = 2 THEN Pos(Num(1), Undefined) ELSE Pos(Bad, Num(2))
Answers(p) == {Fail(ErrorOf(p)), Ok(PositionOf(p)), Ok(GarbageOf(p))}

IncorrectData == "TypeError: Incorrect data"

\* --------------------------------------------------------------- state
VARIABLES
    localStorage,       \* the string under '_GeoLocData'; <<>> when there is none
    now,                \* Date.now()
    uidCounter,         \* var uidCounter
    defaultProviders,   \* var defaultProviders
    this_providers,     \* this.providers of the resolver
    this_maximumAge,    \* this.maximumAge of the resolver
    call,               \* the resolve calls, by number
    last                \* the last (null, position) a provider's answer produced, and when

vars == <<localStorage, now, uidCounter, defaultProviders, this_providers,
          this_maximumAge, call, last>>

\* Two callers, one resolve call each: calls share nothing but localStorage
\* and uidCounter, and may overlap.
Calls == {1, 2}

\* A resolve call: where it stands (pc), the closure variables of the code
\* (queue; requests) and what it has done so far: the list its providers were
\* taken from, the providers contacted in order, how many answers the
\* sequential strategy has received and the last of them, the id given to
\* each request, the requests
\* whose provider has not called back (live), the ids abort() was called on,
\* the arguments of every invocation of the completion callback (cbLog), and
\* the time at which the cache answered, if it did (hitAt).
IdleCall ==
    [pc |-> "idle", kind |-> "none", list |-> <<>>, queue |-> <<>>,
     contacted |-> <<>>, answered |-> 0, answer |-> Null,
     uids |-> <<>>, requests |-> {}, live |-> {}, aborts |-> <<>>,
     cbLog |-> <<>>, hitAt |-> 0]

\* ConstructProviders with options.providers || []: the default list is not read.
ConstructProvidersEmpty(o, defaults) ==
    IF o.providers.given THEN o.providers.list ELSE <<>>

\* function GeoLoc(options): this.providers = options.providers || defaultProviders
ConstructProviders(o, defaults) ==
    IF o.providers.given THEN o.providers.list ELSE defaults

\* function GeoLoc(options): if (options.maximumAge) this.maximumAge = ...;
\* otherwise the prototype's value shows through.
ConstructMaximumAge(o) == OrElse(o.maximumAge, DefaultMaximumAge)

Init ==
    /\ localStorage = <<>>
    /\ now = 0
    /\ uidCounter = 0
    /\ defaultProviders = <<>>
    /\ \E o \in [providers : ProviderOptions, maximumAge : {0}] :
          /\ this_providers = ConstructProviders(o, defaultProviders)
          /\ this_maximumAge = ConstructMaximumAge(o)
    /\ call = [c \in Calls |-> IdleCall]
    /\ last = Null

\* ---------------------------------------------------------- the cache
\* Fresh with < for <=: a record exactly maximumAge old is stale.
FreshStrict(t, timeStamp, maximumAge) ==
    ~timeStamp.nan /\ t - timeStamp.v < maximumAge

\* Date.now() - timeStamp <= maximumAge: false when timeStamp is NaN.
Fresh(t, timeStamp, maximumAge) ==
    ~timeStamp.nan /\ t - timeStamp.v <= maximumAge

\* _getPositionFromLocalStorage(maximumAge), on the store and clock given.
GetPositionFromLocalStorage(store, t, maximumAge) ==
    IF store # <<>>
    THEN LET storedData == Split(store)
             timeStamp == NumberAt(storedData, 3)
         IN  IF Fresh(t, timeStamp, maximumAge)
             THEN Pos(NumberAt(storedData, 1), NumberAt(storedData, 2))
             ELSE Null
    ELSE Null

\* StoredString with latitude and longitude in each other's place.
StoredStringSwapped(data, t) == Join(<<data.longitude, data.latitude, Num(t)>>)

\* localStorage.setItem('_GeoLocData', [latitude, longitude, Date.now()].join(','))
StoredString(data, t) == Join(<<data.latitude, data.longitude, Num(t)>>)

\* typeof data.latitude != 'number' || typeof data.longitude != 'number'
Malformed(data) == data.latitude.type # "number" \/ data.longitude.type # "number"

\* Invoke that calls cb a second time with the same arguments.
InvokeTwice(rec, err, data) ==
    [rec EXCEPT !.cbLog = @ \o <<[err |-> err, data |-> data], [err |-> err, data |-> data]>>]

\* cb(err, data)
Invoke(rec, err, data) == [rec EXCEPT !.cbLog = Append(@, [err |-> err, data |-> data])]

\* if (pos) { cb(null, pos); return this; }
Shortcut(rec, pos) == Invoke([rec EXCEPT !.pc = "done", !.hitAt = now], "null", pos)

CanStart(c) ==
    /\ call[c].pc = "idle"
    /\ \A d \in Calls : d < c => call[d].pc # "idle"

\* ------------------------------------------------- sequential strategy
\* options.maximumAge || this.maximumAge
EffectiveMaximumAge(o) == OrElse(o.maximumAge, this_maximumAge)

\* var providers = options.providers || this.providers
EffectiveProviders(o) ==
    IF o.providers.given THEN o.providers.list ELSE this_providers

\* WorkingQueue with slice(1) for slice(0): the list less its first provider,
\* as a list already shifted once would be.
WorkingQueueRest(o) == IF this_providers = <<>> THEN <<>> ELSE Tail(this_providers)

\* The list the inner getPosition is entered with: this.providers.slice(0).
\* The local variable providers computed just above it is not used.
WorkingQueue(o) == this_providers

\* Attempt with providers.pop() for providers.shift(): the last provider first.
AttemptFromBack(rec, providers) ==
    IF providers = <<>>
    THEN [rec EXCEPT !.pc = "thrown", !.queue = <<>>]
    ELSE [rec EXCEPT !.pc = "wait",
                     !.queue = SubSeq(providers, 1, Len(providers) - 1),
                     !.contacted = Append(@, providers[Len(providers)])]

\* (function getPosition(providers) { var provider = providers.shift();
\*  provider.getPosition(...) }): with nothing to shift, provider is undefined
\* and provider.getPosition throws a TypeError; otherwise the provider is
\* contacted and the call waits for its callback.
Attempt(rec, providers) ==
    IF providers = <<>>
    THEN [rec EXCEPT !.pc = "thrown", !.queue = <<>>]
    ELSE [rec EXCEPT !.pc = "wait", !.queue = Tail(providers),
                     !.contacted = Append(@, Head(providers))]

\* The body of getPosition after its arguments are sorted out: the cache
\* shortcut, else the first attempt on a copy of the list.
Resolve(rec, maximumAge, providers) ==
    LET pos == GetPositionFromLocalStorage(localStorage, now, maximumAge)
    IN  IF pos # Null
        THEN Shortcut(rec, pos)
        ELSE Attempt([rec EXCEPT !.list = providers], providers)

Enter(c, rec) ==
    /\ CanStart(c)
    /\ call' = [call EXCEPT ![c] = rec]
    /\ UNCHANGED <<localStorage, now, defaultProviders, this_providers,
                   this_maximumAge, last>>

\* GeoLoc.prototype.getPosition(options, cb), first edition.
GetPosition(c, o) ==
    /\ Enter(c, Resolve([call[c] EXCEPT !.kind = "seq"],
                        EffectiveMaximumAge(o), WorkingQueue(o)))
    /\ UNCHANGED uidCounter

\* GeoLoc.prototype.getPosition(cb), second edition: no options.
GetPosition2(c) ==
    /\ Enter(c, Resolve([call[c] EXCEPT !.kind = "seq"],
                        this_maximumAge, this_providers))
    /\ UNCHANGED uidCounter

\* GeoLoc.getPosition(options, cb), second edition:
\* new GeoLoc(options).getPosition(cb) on a resolver of its own.
StaticGetPosition2(c, o) ==
    /\ Enter(c, Resolve([call[c] EXCEPT !.kind = "seq"],
                        ConstructMaximumAge(o),
                        ConstructProviders(o, defaultProviders)))
    /\ UNCHANGED uidCounter

\* SeqOutcome that goes on to the next provider after a success as well.
SeqOutcomeGreedy(rec, r) ==
    IF r.err # "null"
    THEN IF rec.queue # <<>>
         THEN Attempt(rec, rec.queue)
         ELSE Invoke([rec EXCEPT !.pc = "done"], r.err, Null)
    ELSE IF Malformed(r.data)
    THEN IF rec.queue # <<>>
         THEN Attempt(rec, rec.queue)
         ELSE Invoke([rec EXCEPT !.pc = "done"], IncorrectData, Null)
    ELSE IF rec.queue # <<>>
    THEN Attempt(Invoke(rec, "null", r.data), rec.queue)
    ELSE Invoke([rec EXCEPT !.pc = "done"], "null", r.data)

\* SeqOutcome that reports a provider's error at once, whatever the queue holds.
SeqOutcomeGiveUp(rec, r) ==
    IF r.err # "null"
    THEN Invoke([rec EXCEPT !.pc = "done"], r.err, Null)
    ELSE IF Malformed(r.data)
    THEN IF rec.queue # <<>>
         THEN Attempt(rec, rec.queue)
         ELSE Invoke([rec EXCEPT !.pc = "done"], IncorrectData, Null)
    ELSE Invoke([rec EXCEPT !.pc = "done"], "null", r.data)

\* SeqOutcome that ends the call without invoking cb when the last provider
\* of the list fails.
SeqOutcomeDrops(rec, r) ==
    IF r.err # "null"
    THEN IF rec.queue # <<>>
         THEN Attempt(rec, rec.queue)
         ELSE [rec EXCEPT !.pc = "done"]
    ELSE IF Malformed(r.data)
    THEN IF rec.queue # <<>>
         THEN Attempt(rec, rec.queue)
         ELSE [rec EXCEPT !.pc = "done"]
    ELSE Invoke([rec EXCEPT !.pc = "done"], "null", r.data)

\* The callback handed to provider.getPosition by the sequential strategy.
SeqOutcome(rec, r) ==
    IF r.err # "null"
    THEN IF rec.queue # <<>>
         THEN Attempt(rec, rec.queue)
         ELSE Invoke([rec EXCEPT !.pc = "done"], r.err, Null)
    ELSE IF Malformed(r.data)
    THEN IF rec.queue # <<>>
         THEN Attempt(rec, rec.queue)
         ELSE Invoke([rec EXCEPT !.pc = "done"], IncorrectData, Null)
    ELSE Invoke([rec EXCEPT !.pc = "done"], "null", r.data)

\* The answer r reaches the callback: it is logged, then the callback runs.
Answered(rec, r) == SeqOutcome([rec EXCEPT !.answered = @ + 1, !.answer = r], r)

\* Succeeds without the typeof test on the data: any answer without an error.
SucceedsLoose(r) == r.err = "null"

\* The answers on which the success branch runs.
Succeeds(r) == r.err = "null" /\ ~Malformed(r.data)

\* The provider a sequential call waits for calls back with r.
ProviderCallback(c, r) ==
    /\ call[c].kind = "seq"
    /\ call[c].pc = "wait"
    /\ r \in Answers(call[c].contacted[Len(call[c].contacted)])
    /\ call' = [call EXCEPT ![c] = Answered(call[c], r)]
    /\ localStorage' = IF Succeeds(r) THEN StoredString(r.data, now) ELSE localStorage
    /\ last' = IF Succeeds(r) THEN [pos |-> r.data, t |-> now] ELSE last
    /\ UNCHANGED <<now, uidCounter, defaultProviders, this_providers, this_maximumAge>>

\* --------------------------------------------------- parallel strategy
\* setData(provider) for every provider of the list, in order: each request
\* gets the next uid and is entered in requests.  Providers answer later,
\* from the event loop.
StartAll(rec, providers) ==
    LET ids == [i \in 1..Len(providers) |-> uidCounter + i]
    IN  [rec EXCEPT !.pc = "race", !.list = providers,
                    !.contacted = providers, !.uids = ids,
                    !.requests = {ids[i] : i \in 1..Len(providers)},
                    !.live = {ids[i] : i \in 1..Len(providers)}]

\* GeoLoc.prototype.getPositionParallel(options, cb).
GetPositionParallel(c, o) ==
    LET pos == GetPositionFromLocalStorage(localStorage, now, EffectiveMaximumAge(o))
        rec == [call[c] EXCEPT !.kind = "par"]
    IN  /\ Enter(c, IF pos # Null
                    THEN Shortcut(rec, pos)
                    ELSE StartAll(rec, EffectiveProviders(o)))
        /\ uidCounter' = IF pos # Null THEN uidCounter
                         ELSE uidCounter + Len(EffectiveProviders(o))

\* The ids of a set, in the order for (var id in requests) visits them:
\* integer keys ascending.
RECURSIVE Ascending(_)
Ascending(S) ==
    IF S = {} THEN <<>>
    ELSE LET m == CHOOSE x \in S : \A y \in S : x <= y
         IN  <<m>> \o Ascending(S \ {m})

\* ParOutcome whose abortAllRequests() runs before the winner's own request
\* is deleted: abort() reaches the winner's handle as well.
ParOutcomeAbortsWinner(rec, u, r) ==
    LET others == rec.requests \ {u}
        left == [rec EXCEPT !.requests = others, !.live = @ \ {u}]
    IN  IF r.err # "null"
        THEN IF others = {} THEN Invoke(left, r.err, Null) ELSE left
        ELSE IF Malformed(r.data)
        THEN IF others = {} THEN Invoke(left, IncorrectData, Null) ELSE left
        ELSE Invoke([left EXCEPT !.requests = {},
                                 !.aborts = @ \o Ascending(rec.requests)],
                    "null", r.data)

\* The callback handed to provider.getPosition by setData, for request u.
ParOutcome(rec, u, r) ==
    LET others == rec.requests \ {u}        \* delete requests[req._GeoLoc_id]
        left == [rec EXCEPT !.requests = others, !.live = @ \ {u}]
    IN  IF r.err # "null"
        THEN IF others = {} THEN Invoke(left, r.err, Null) ELSE left
        ELSE IF Malformed(r.data)
        THEN IF others = {} THEN Invoke(left, IncorrectData, Null) ELSE left
        ELSE Invoke([left EXCEPT !.requests = {},          \* abortAllRequests()
                                 !.aborts = @ \o Ascending(others)],
                    "null", r.data)

\* The provider request u of a call went to.
ProviderOfRequest(rec, u) ==
    rec.contacted[CHOOSE i \in 1..Len(rec.uids) : rec.uids[i] = u]

\* The setData callback of request u runs with the answer r.
SetDataCallback(c, u, r) ==
    /\ call[c].kind = "par"
    /\ u \in call[c].live
    /\ r \in Answers(ProviderOfRequest(call[c], u))
    /\ call' = [call EXCEPT ![c] = ParOutcome(call[c], u, r)]
    /\ localStorage' = IF Succeeds(r) THEN StoredString(r.data, now) ELSE localStorage
    /\ last' = IF Succeeds(r) THEN [pos |-> r.data, t |-> now] ELSE last
    /\ UNCHANGED <<now, uidCounter, defaultProviders, this_providers, this_maximumAge>>

\* A provider answers request u, which is in flight: started, not answered,
\* not aborted.
ParallelCallback(c, u, r) ==
    /\ u \in call[c].requests
    /\ SetDataCallback(c, u, r)

\* A provider answers request u although abort() was called on its handle.
LateCallback(c, u, r) ==
    /\ u \notin call[c].requests
    /\ SetDataCallback(c, u, r)

\* ------------------------------------------------------------ the clock
Tick ==
    /\ now % DefaultMaximumAge < MaxSmallTicks
    /\ now' = now + 1
    /\ UNCHANGED <<localStorage, uidCounter, defaultProviders, this_providers,
                   this_maximumAge, call, last>>

\* The page is left alone for a day, once.
TickAge ==
    /\ now < DefaultMaximumAge
    /\ now' = now + DefaultMaximumAge
    /\ UNCHANGED <<localStorage, uidCounter, defaultProviders, this_providers,
                   this_maximumAge, call, last>>

Uids == 1..(2 * NumProviders)

AnyAnswer == UNION {Answers(p) : p \in Providers}

\* Providers that honour abort(): an aborted request is never answered.
Next ==
    \/ \E c \in Calls, o \in Options : GetPosition(c, o)
    \/ \E c \in Calls : GetPosition2(c)
    \/ \E c \in Calls, o \in Options : StaticGetPosition2(c, o)
    \/ \E c \in Calls, r \in AnyAnswer : ProviderCallback(c, r)
    \/ \E c \in Calls, o \in Options : GetPositionParallel(c, o)
    \/ \E c \in Calls, u \in Uids, r \in AnyAnswer : ParallelCallback(c, u, r)
    \/ Tick
    \/ TickAge

Spec == Init /\ [][Next]_vars

\* The sequential strategy alone, with providers that always call back in
\* the end: a provider that is waited for does not stay silent for ever.
NextSeq ==
    \/ \E c \in Calls, o \in Options : GetPosition(c, o)
    \/ \E c \in Calls : GetPosition2(c)
    \/ \E c \in Calls, o \in Options : StaticGetPosition2(c, o)
    \/ \E c \in Calls, r \in AnyAnswer : ProviderCallback(c, r)
    \/ Tick
    \/ TickAge

SpecSeqFair ==
    /\ Init
    /\ [][NextSeq]_vars
    /\ \A c \in Calls : WF_vars(\E r \in AnyAnswer : ProviderCallback(c, r))

\* The caller lets go of a call that is over: the callback has been invoked or
\* the call has thrown, and no request of it is in flight.
Forget(c) ==
    /\ call[c].pc \in {"done", "thrown"} \/ (call[c].pc = "race" /\ call[c].requests = {})
    /\ call' = [call EXCEPT ![c] = IdleCall]
    /\ UNCHANGED <<localStorage, now, uidCounter, defaultProviders, this_providers,
                   this_maximumAge, last>>

\* GeoLoc.prototype.use(providers): this.providers = providers.
Use(l) ==
    /\ this_providers' = l
    /\ UNCHANGED <<localStorage, now, uidCounter, defaultProviders, this_maximumAge,
                   call, last>>

\* One caller making resolve calls on one resolver one after the other, each
\* entered once the one before it is over, with use(providers) called on the
\* resolver at any time; request ids stay within Uids.
NextCache ==
    \/ \E o \in Options : GetPosition(1, o)
    \/ GetPosition2(1)
    \/ \E o \in Options : StaticGetPosition2(1, o)
    \/ \E r \in AnyAnswer : ProviderCallback(1, r)
    \/ \E o \in Options : GetPositionParallel(1, o) /\ uidCounter' \in Uids \cup {0}
    \/ \E u \in Uids, r \in AnyAnswer : ParallelCallback(1, u, r)
    \/ Forget(1)
    \/ \E l \in ProviderLists : Use(l)
    \/ Tick
    \/ TickAge

SpecCache == Init /\ [][NextCache]_vars

\* ------------------------------------------------------- configuration
\* new GeoLoc(options): from here on the resolver in hand is the new one.
Construct(o) ==
    /\ this_providers' = ConstructProviders(o, defaultProviders)
    /\ this_maximumAge' = ConstructMaximumAge(o)
    /\ UNCHANGED <<localStorage, now, uidCounter, defaultProviders, call, last>>

\* GeoLoc.use(providers): return new GeoLoc({ providers: providers }).
StaticUse(l) ==
    LET o == [providers |-> Given(l), maximumAge |-> 0]
    IN  /\ this_providers' = ConstructProviders(o, defaultProviders)
        /\ this_maximumAge' = ConstructMaximumAge(o)
        /\ UNCHANGED <<localStorage, now, uidCounter, defaultProviders, call, last>>

\* GeoLoc.setDefaultProviders(providers): defaultProviders = providers.
SetDefaultProviders(l) ==
    /\ defaultProviders' = l
    /\ UNCHANGED <<localStorage, now, uidCounter, this_providers, this_maximumAge,
                   call, last>>

\* GeoLoc.getPosition(options, cb), first edition:
\* new GeoLoc().getPosition(options, cb), on a resolver of its own built
\* without options.
StaticGetPosition(c, o) ==
    LET fresh == [providers |-> NoProviders, maximumAge |-> 0]
    IN  /\ Enter(c, Resolve([call[c] EXCEPT !.kind = "seq"],
                            OrElse(o.maximumAge, ConstructMaximumAge(fresh)),
                            ConstructProviders(fresh, defaultProviders)))
        /\ UNCHANGED uidCounter

\* One caller who constructs resolvers and replaces the default list between
\* resolve calls.
NextConfig ==
    \/ \E o \in Options : Construct(o)
    \/ \E l \in ProviderLists : StaticUse(l)
    \/ \E l \in ProviderLists : SetDefaultProviders(l)
    \/ \E o \in Options : GetPosition(1, o)
    \/ GetPosition2(1)
    \/ \E o \in Options : StaticGetPosition(1, o)
    \/ \E o \in Options : StaticGetPosition2(1, o)
    \/ \E r \in AnyAnswer : ProviderCallback(1, r)
    \/ \E o \in Options : GetPositionParallel(1, o) /\ uidCounter' \in Uids \cup {0}
    \/ \E u \in Uids, r \in AnyAnswer : ParallelCallback(1, u, r)
    \/ Forget(1)
    \/ TickAge

SpecConfig == Init /\ [][NextConfig]_vars

\* Providers that may answer a request after abort() as well.
NextLate ==
    \/ \E c \in Calls, o \in Options : GetPositionParallel(c, o)
    \/ \E c \in Calls, u \in Uids, r \in AnyAnswer : ParallelCallback(c, u, r)
    \/ \E c \in Calls, u \in Uids, r \in AnyAnswer : LateCallback(c, u, r)
    \/ Tick
    \/ TickAge

SpecLate == Init /\ [][NextLate]_vars

\* ================================================================ claims
SeqCalls == {c \in Calls : call[c].kind = "seq"}
ParCalls == {c \in Calls : call[c].kind = "par"}

\* An answer that is an error, or data whose latitude or longitude is not a number.
IsFailure(r) ==
    \/ r.err # "null"
    \/ r.data.latitude.type # "number"
    \/ r.data.longitude.type # "number"

\* The call was answered by the cache: a position, and no provider contacted.
CacheHit(rec) ==
    /\ rec.contacted = <<>>
    /\ rec.cbLog # <<>>
    /\ rec.cbLog[1].err = "null"

\* C1: every sequential resolve call invokes the completion callback exactly
\* once: never twice, and once whenever no provider is left to answer it.
C1_CallbackExactlyOnce ==
    \A c \in SeqCalls :
        /\ Len(call[c].cbLog) <= 1
        /\ call[c].pc # "wait" => Len(call[c].cbLog) = 1

\* C2: on a cache miss the sequential strategy contacts the providers of its
\* list in list order, one at a time: the providers contacted so far and the
\* queue make up the list, at most one contacted provider has not answered,
\* and a further provider is contacted only once the one before it has
\* answered with an error or with malformed data.
C2_InListOrderOneAtATime ==
    \A c \in SeqCalls :
        /\ call[c].contacted \o call[c].queue = call[c].list
        /\ Len(call[c].contacted) =
               call[c].answered + (IF call[c].pc = "wait" THEN 1 ELSE 0)
        /\ (call[c].pc = "wait" /\ call[c].answered > 0) => IsFailure(call[c].answer)

C2_Witness ==
    \E c \in SeqCalls :
        /\ call[c].pc = "wait"
        /\ call[c].contacted = <<2, 1>>
        /\ call[c].answered = 1

\* C3: once a provider has answered a sequential call with a well-formed
\* position, the call is over: the completion callback has received (null,
\* that position), and the providers still in the queue are never contacted.
C3_SuccessEndsTheCall ==
    \A c \in SeqCalls :
        (call[c].answered > 0 /\ ~IsFailure(call[c].answer)) =>
            /\ call[c].answered = Len(call[c].contacted)
            /\ call[c].pc = "done"
            /\ call[c].cbLog = <<[err |-> "null", data |-> call[c].answer.data]>>

C3_Witness ==
    \E c \in SeqCalls :
        /\ call[c].answered = 1
        /\ ~IsFailure(call[c].answer)
        /\ call[c].queue # <<>>
        /\ call[c].pc = "done"

\* The steps that enter a resolve call, with the maximumAge in force for it.
EntersWith(c, m) ==
    /\ call[c].pc = "idle"
    /\ call'[c].pc # "idle"
    /\ \/ \E o \in Options :
             /\ m = (IF o.maximumAge # 0 THEN o.maximumAge ELSE this_maximumAge)
             /\ GetPosition(c, o) \/ GetPositionParallel(c, o)
       \/ m = this_maximumAge /\ GetPosition2(c)

\* The call entered in this step is answered from the cache with pos.
AnsweredFromCache(c, pos) ==
    /\ call'[c].pc = "done"
    /\ call'[c].cbLog = <<[err |-> "null", data |-> pos]>>
    /\ call'[c].contacted = <<>>
    /\ uidCounter' = uidCounter

\* The call entered in this step goes to its providers.
Bypassed(c) ==
    /\ call'[c].cbLog = <<>>
    /\ call'[c].list # <<>> => call'[c].contacted # <<>>
    /\ call'[c].kind = "par" => call'[c].contacted = call'[c].list

\* C4: with a stored record of numeric fields, getPosition and
\* getPositionParallel answer (null, cached position) and contact no provider
\* exactly when now - timestamp <= the maximumAge in force (the call's own,
\* else the resolver's), age = maximumAge included; when the record is older,
\* or there is none, the call goes to its providers.
C4_CacheShortcut ==
    [][\A c \in Calls, m \in (MaximumAges \ {0}) \cup {this_maximumAge} :
          EntersWith(c, m) =>
              /\ last = Null => Bypassed(c)
              /\ (last # Null /\ ~last.pos.latitude.nan /\ ~last.pos.longitude.nan) =>
                     IF now - last.t <= m
                     THEN AnsweredFromCache(c, last.pos)
                     ELSE Bypassed(c)]_vars

\* A call answered from the cache when the record was exactly as old as the
\* resolver's maximumAge.
C4_Witness ==
    \E c \in Calls :
        /\ CacheHit(call[c])
        /\ last # Null
        /\ ~last.pos.latitude.nan
        /\ call[c].cbLog[1].data = last.pos
        /\ call[c].hitAt - last.t = this_maximumAge

\* C5: a stored record one of whose three fields does not parse as a number
\* is absent: a call entered over it is not answered from the cache.
C5_UnparsableRecordIsAbsent ==
    [][\A c \in Calls :
          (/\ call[c].pc = "idle"
           /\ call'[c].pc # "idle"
           /\ localStorage # <<>>
           /\ \E i \in 1..3 : NumberAt(Split(localStorage), i).nan)
          => call'[c].cbLog = <<>>]_vars

\* C6: on a cache miss, sequential getPosition(options, cb) takes its providers
\* from options.providers when that is given, and from the resolver otherwise.
C6_OptionsProvidersAreUsed ==
    [][\A c \in Calls, o \in Options :
          /\ (GetPosition(c, o) /\ call'[c].pc # "done") =>
                 call'[c].contacted \o call'[c].queue =
                     (IF o.providers.given THEN o.providers.list ELSE this_providers)
          /\ (StaticGetPosition2(c, o) /\ call'[c].pc # "done") =>
                 call'[c].contacted \o call'[c].queue =
                     (IF o.providers.given THEN o.providers.list ELSE defaultProviders)]_vars

\* C7: a sequential call entered with an empty provider list and not answered
\* from the cache has invoked the completion callback once, with an error and
\* no position, and has contacted no provider.
C7_EmptyListReportsAnError ==
    \A c \in SeqCalls :
        (call[c].list = <<>> /\ ~CacheHit(call[c])) =>
            /\ call[c].contacted = <<>>
            /\ Len(call[c].cbLog) = 1
            /\ call[c].cbLog[1].err # "null"
            /\ call[c].cbLog[1].data = Null

\* C8: once getPositionParallel has invoked the completion callback, whatever
\* a provider of that call still delivers is discarded: no further invocation
\* of the callback and no further write of the cache.
C8_LateCallbacksAreDiscarded ==
    [][\A c \in ParCalls :
          (call[c].cbLog # <<>> /\ call'[c] # call[c]) =>
              /\ call'[c].cbLog = call[c].cbLog
              /\ localStorage' = localStorage]_vars

\* The steps that enter any resolve call, with the maximumAge in force for it.
EntersAnyWith(c, m) ==
    /\ call[c].pc = "idle"
    /\ call'[c].pc # "idle"
    /\ \/ EntersWith(c, m)
       \/ \E o \in Options :
             /\ m = (IF o.maximumAge # 0 THEN o.maximumAge ELSE DefaultMaximumAge)
             /\ StaticGetPosition2(c, o)

\* C9: when a provider's well-formed position p reaches the completion
\* callback at time t, the cache holds p already; and every resolve call
\* entered while p is the last position so delivered and now - t <= maximumAge
\* is answered (null, p) with no provider contacted.
C9_SuccessIsCached ==
    [][\A c \in Calls :
          /\ (call'[c] # call[c] /\ Len(call'[c].cbLog) > Len(call[c].cbLog)
                 /\ call[c].pc \in {"wait", "race"}
                 /\ call'[c].cbLog[Len(call'[c].cbLog)].err = "null") =>
                 /\ last' = [pos |-> call'[c].cbLog[Len(call'[c].cbLog)].data, t |-> now]
                 /\ GetPositionFromLocalStorage(localStorage', now', 0) = last'.pos
          /\ \A m \in (MaximumAges \ {0}) \cup {this_maximumAge, DefaultMaximumAge} :
                 (EntersAnyWith(c, m) /\ last # Null /\ now - last.t <= m) =>
                     AnsweredFromCache(c, last.pos)]_vars

\* A call answered from the cache, later than the success that filled it.
C9_Witness ==
    \E c \in Calls :
        /\ last # Null
        /\ last.pos.latitude.nan
        /\ CacheHit(call[c])
        /\ call[c].cbLog[1].data = last.pos
        /\ call[c].hitAt > last.t

\* C10: a sequential call that is over and whose last answer was not a
\* well-formed position has contacted the whole list and has invoked the
\* callback once, with no position and with the error of the last provider of
\* the list: that provider's own error if it gave one, a TypeError if its data
\* was malformed.
C10_LastProviderDecidesTheError ==
    \A c \in SeqCalls :
        (call[c].pc = "done" /\ call[c].answered > 0 /\ IsFailure(call[c].answer)) =>
            LET n == Len(call[c].list)
                final == call[c].answer
            IN  /\ call[c].contacted = call[c].list
                /\ call[c].answered = n
                /\ final \in Answers(call[c].list[n])
                /\ call[c].cbLog =
                       <<[err |-> IF final.err # "null" THEN final.err ELSE IncorrectData,
                          data |-> Null]>>

\* A call over <<1, 2>> or <<2, 1>> whose last provider gave its own error.
C10_Witness ==
    \E c \in SeqCalls :
        /\ call[c].pc = "done"
        /\ Len(call[c].list) = 2
        /\ call[c].answered = 2
        /\ call[c].answer.err # "null"
        /\ call[c].cbLog = <<[err |-> ErrorOf(call[c].list[2]), data |-> Null]>>

\* C11: a getPositionParallel call entered with an empty provider list and not
\* answered from the cache has invoked the completion callback once, with an
\* error and no position.
C11_EmptyRaceReportsAnError ==
    \A c \in ParCalls :
        (call[c].list = <<>> /\ ~CacheHit(call[c])) =>
            /\ Len(call[c].cbLog) = 1
            /\ call[c].cbLog[1].err # "null"
            /\ call[c].cbLog[1].data = Null

\* C12: no resolve call, sequential or parallel, ends in an exception thrown
\* out of getPosition or getPositionParallel; failures reach the caller
\* through the completion callback only.
C12_NothingIsThrown ==
    \A c \in Calls : call[c].pc # "thrown"

\* The ids abort() was called on in this step, in order.
NewAborts(c) ==
    SubSeq(call'[c].aborts, Len(call[c].aborts) + 1, Len(call'[c].aborts))

\* C13: when a provider answers a getPositionParallel call with a well-formed
\* position, abort() is called once on every other request still in flight
\* and on no other (not the winner's, not one already answered), no request
\* is in flight afterwards, the cache holds the winner's position, and the
\* completion callback has received (null, the winner's position), once.
C13_WinnerAbortsTheOthers ==
    [][\A c \in Calls :
          (call[c].kind = "par" /\ call'[c] # call[c]) =>
          \A u \in call[c].requests :
          \A r \in Answers(ProviderOfRequest(call[c], u)) :
          (Succeeds(r) /\ ParallelCallback(c, u, r)) =>
              LET others == call[c].requests \ {u}
              IN  /\ Len(NewAborts(c)) = Cardinality(others)
                  /\ {NewAborts(c)[i] : i \in 1..Len(NewAborts(c))} = others
                  /\ call'[c].requests = {}
                  /\ localStorage' = StoredString(r.data, now)
                  /\ call'[c].cbLog = <<[err |-> "null", data |-> r.data]>>]_vars

\* The first of two providers won while the second was in flight.
C13_Witness ==
    \E c \in ParCalls :
        /\ Len(call[c].list) = 2
        /\ call[c].cbLog = <<[err |-> "null", data |-> PositionOf(call[c].list[1])]>>
        /\ call[c].aborts = <<call[c].uids[2]>>
        /\ call[c].requests = {}

\* The error the completion callback is given for a failed answer.
ErrorFor(r) == IF r.err # "null" THEN r.err ELSE IncorrectData

\* C14: in getPositionParallel, with every provider calling back once and
\* from the event loop, an error or a malformed result invokes the completion
\* callback only when no other request of the call is still unanswered, and
\* then with that request's error (a TypeError for malformed data); so a call
\* one of whose providers succeeds is given a success and never an error.
C14_ErrorOnlyFromTheLastRequest ==
    [][\A c \in Calls :
          (call[c].kind = "par" /\ call'[c] # call[c]) =>
              /\ \A u \in call[c].live, r \in AnyAnswer :
                     (SetDataCallback(c, u, r) /\ IsFailure(r)) =>
                         call'[c].cbLog =
                             IF call[c].live \ {u} = {}
                             THEN Append(call[c].cbLog, [err |-> ErrorFor(r), data |-> Null])
                             ELSE call[c].cbLog
              /\ (\E i \in 1..Len(call'[c].cbLog) : call'[c].cbLog[i].err = "null") =>
                     \A i \in 1..Len(call'[c].cbLog) : call'[c].cbLog[i].err = "null"]_vars

\* C15: the stored record changes only in the step in which a provider's
\* well-formed position reaches the completion callback, and then to that
\* position and the time of the step; a call answered from the cache, an
\* answer that is an error or malformed, and the passing of time leave it as
\* it is, and a record once stored is never removed.
C15_WrittenOnlyOnSuccess ==
    [][/\ (localStorage' # localStorage) =>
              \E c \in Calls :
                  /\ call[c].pc \in {"wait", "race"}
                  /\ Len(call'[c].cbLog) = Len(call[c].cbLog) + 1
                  /\ call'[c].cbLog[Len(call'[c].cbLog)].err = "null"
                  /\ localStorage' =
                         StoredString(call'[c].cbLog[Len(call'[c].cbLog)].data, now)
       /\ (localStorage # <<>>) => (localStorage' # <<>>)]_vars

\* A call answered from the cache after the record was written: the record
\* still carries the time of the write.
C15_Witness ==
    /\ last # Null
    /\ localStorage = StoredString(last.pos, last.t)
    /\ \E c \in Calls :
           /\ CacheHit(call[c])
           /\ call[c].hitAt > last.t
           /\ now > last.t

\* C16: sequential getPosition shifts a copy of the list: no step changes the
\* resolver's providers or the default providers, the list a call took its
\* providers from stays what it was while the call consumes its queue, and
\* every call entered on a cache miss starts on the whole list with its first
\* provider, whatever earlier calls on the resolver have consumed.
C16_ListsAreNotConsumed ==
    [][/\ this_providers' = this_providers
       /\ defaultProviders' = defaultProviders
       /\ \A c \in Calls : call[c].pc # "idle" => call'[c].list = call[c].list
       /\ \A c \in Calls :
              (call[c].pc = "idle" /\ call'[c].pc \in {"wait", "thrown"}) =>
                  /\ (GetPosition2(c) \/ \E o \in Options : GetPosition(c, o)) =>
                         /\ call'[c].list = this_providers
                         /\ this_providers # <<>> =>
                                /\ call'[c].contacted = <<Head(this_providers)>>
                                /\ call'[c].queue = Tail(this_providers)
                  /\ \A o \in Options :
                         StaticGetPosition2(c, o) =>
                             LET given == ConstructProviders(o, defaultProviders)
                             IN  /\ call'[c].list = given
                                 /\ given # <<>> =>
                                        /\ call'[c].contacted = <<Head(given)>>
                                        /\ call'[c].queue = Tail(given)]_vars

\* A first call has been through both providers of the resolver's list; a
\* second call on the resolver waits for the first provider of that list.
C16_Witness ==
    /\ Len(this_providers) = 2
    /\ call[1].kind = "seq" /\ call[1].pc = "done" /\ call[1].answered = 2
    /\ call[1].list = this_providers
    /\ call[2].kind = "seq" /\ call[2].pc = "wait" /\ call[2].answered = 0
    /\ call[2].list = this_providers
    /\ call[2].contacted = <<Head(this_providers)>>

\* C17: sequential calls that overlap share nothing but the cache.  A call
\* entered on a cache miss contacts the first provider of its own list even
\* while another call waits for a provider; an answer to one call changes
\* nothing of the other; the call's callback is invoked once, when the call
\* ends, with what its own provider answered; and each success overwrites
\* the stored record, so the record is that of the success written last.
C17_OverlappingCallsAreSeparate ==
    [][\A c \in Calls :
          /\ (call[c].pc = "idle" /\ call'[c].pc = "wait") =>
                 /\ call'[c].contacted = <<Head(call'[c].list)>>
                 /\ call'[c].cbLog = <<>>
          /\ (call[c].kind = "seq" /\ call[c].pc = "wait" /\ call'[c] # call[c]) =>
                 /\ \A d \in Calls \ {c} : call'[d] = call[d]
                 /\ \A r \in Answers(call[c].contacted[Len(call[c].contacted)]) :
                        ProviderCallback(c, r) =>
                            /\ call'[c].cbLog =
                                   IF call'[c].pc # "done" THEN <<>>
                                   ELSE IF Succeeds(r)
                                   THEN <<[err |-> "null", data |-> r.data]>>
                                   ELSE <<[err |-> ErrorFor(r), data |-> Null]>>
                            /\ Succeeds(r) =>
                                   /\ call'[c].pc = "done"
                                   /\ localStorage' = StoredString(r.data, now)]_vars

\* Two calls went to their providers and both succeeded, with different
\* positions; the record is that of call 1, which was entered first and so
\* was still waiting when call 2 was entered and answered.
C17_Witness ==
    /\ \A c \in Calls :
           /\ call[c].kind = "seq"
           /\ call[c].pc = "done"
           /\ call[c].answered > 0
           /\ call[c].cbLog = <<[err |-> "null", data |-> call[c].answer.data]>>
    /\ call[1].answer.data # call[2].answer.data
    /\ last # Null
    /\ last.pos = call[1].answer.data
    /\ localStorage = StoredString(call[1].answer.data, last.t)

\* C18: the sequential strategy has no timeout of its own and cancels
\* nothing.  While a call waits for a provider, nothing but that provider's
\* callback moves the call, however much time passes: no further provider is
\* contacted and the completion callback is not invoked.  With providers
\* that always call back in the end, a waiting call ends with the callback
\* invoked once, having contacted no more providers than its list holds.
C18_NoTimeoutOfItsOwn ==
    /\ [][\A c \in Calls :
              (call[c].kind = "seq" /\ call[c].pc = "wait" /\ call'[c] # call[c]) =>
                  /\ \E r \in AnyAnswer : ProviderCallback(c, r)
                  /\ call'[c].answered = call[c].answered + 1
                  /\ Len(call'[c].contacted) <= Len(call[c].list)]_vars
    /\ \A c \in Calls :
           (call[c].kind = "seq" /\ call[c].pc = "wait") ~>
               (/\ call[c].pc = "done"
                /\ Len(call[c].cbLog) = 1
                /\ Len(call[c].contacted) <= Len(call[c].list))

\* Call 1 has had no answer from its first provider since before call 2 was
\* entered; call 2 succeeded a day ago or more; call 1 still waits, with a
\* provider left in its queue and its callback not invoked.
C18_Witness ==
    /\ call[1].kind = "seq" /\ call[1].pc = "wait" /\ call[1].answered = 0
    /\ call[1].queue # <<>>
    /\ call[1].cbLog = <<>>
    /\ call[2].kind = "seq" /\ call[2].pc = "done" /\ call[2].answered > 0
    /\ last # Null
    /\ call[2].cbLog = <<[err |-> "null", data |-> last.pos]>>
    /\ now - last.t >= DefaultMaximumAge

\* C19: what a resolver holds is fixed when it is constructed: neither a
\* resolve call, with or without options of its own, nor the instance method
\* use(providers) changes the resolver's providers or its maximumAge.
C19_ConfigurationIsFixed ==
    [][((call' # call) \/ (\E l \in ProviderLists : Use(l))) =>
           /\ this_providers' = this_providers
           /\ this_maximumAge' = this_maximumAge]_vars

\* A step that enters a sequential call on a cache miss.
EntersSeq(c) ==
    /\ call[c].pc = "idle"
    /\ call'[c].pc \in {"wait", "thrown"}

\* C20: the default list is read when a resolver is constructed and at no
\* other time.  setDefaultProviders changes neither the resolver in hand nor
\* a call in progress; a resolver constructed without providers takes the
\* default of that moment, and its calls use the resolver's list whatever the
\* default has become; the static getPosition, called without providers,
\* uses the default of the moment of the call; and the static use(providers)
\* gives a resolver on those providers and leaves the default as it is.
C20_DefaultsApplyFromConstruction ==
    [][/\ \A l \in ProviderLists :
              /\ SetDefaultProviders(l) =>
                     /\ this_providers' = this_providers
                     /\ call' = call
              /\ StaticUse(l) =>
                     /\ this_providers' = l
                     /\ defaultProviders' = defaultProviders
       /\ \A o \in Options :
              (~o.providers.given /\ Construct(o)) => this_providers' = defaultProviders
       /\ \A c \in Calls :
              EntersSeq(c) =>
                  /\ GetPosition2(c) => call'[c].list = this_providers
                  /\ \A o \in Options :
                         (~o.providers.given
                              /\ (StaticGetPosition(c, o) \/ StaticGetPosition2(c, o))) =>
                             call'[c].list = defaultProviders]_vars

\* The default list has been replaced and is not the resolver's list; a
\* call on the resolver waits on the resolver's list.
C20_Witness ==
    /\ defaultProviders # <<>>
    /\ this_providers # <<>>
    /\ this_providers # defaultProviders
    /\ Head(this_providers) # Head(defaultProviders)
    /\ call[1].kind = "seq"
    /\ call[1].pc = "wait"
    /\ call[1].list = this_providers

====
